---- MODULE Spec2Model ----
(***************************************************************************)
(* Model of the Fanart.tv client: the Fanart facade, the four resource     *)
(* modules (MovieModule, MusicModule, ArtistsModule, TvModule) and the     *)
(* request helper they inherit from BaseClient (makeRequest,               *)
(* processImageUrls, convertToPreviewUrl).                                 *)
(*                                                                         *)
(* Strings are sequences of one-character strings, so that trim, includes, *)
(* lastIndexOf, slice and the date pattern are computed as the code        *)
(* computes them.  JavaScript values are tagged records.                   *)
(***************************************************************************)
EXTENDS Integers, Sequences, FiniteSets, TLC

VARIABLES
    modules,   \* module name -> the BaseClient instance held under it, or NoInstance
    built,     \* the last constructor call: its class and the key it was given
    thrown,    \* what the last constructor call threw (NoError when it returned)
    calls,     \* call slot -> the state of the accessor call running in it
    u,         \* the url handed to convertToPreviewUrl (rewrite specification)
    once,      \* convertToPreviewUrl(u), as a set of at most one string
    twice      \* convertToPreviewUrl(convertToPreviewUrl(u)), likewise

vars == <<modules, built, thrown, calls, u, once, twice>>

----------------------------------------------------------------------------
(* Bounds of the model *)

\* how many pieces an input url of the rewrite specification is made of
MaxParts == 3

----------------------------------------------------------------------------
(* Strings *)

Ws == {" ", "\t", "\n"}

Digits == {"0", "1", "2", "3", "4", "5", "6", "7", "8", "9"}

\* String.prototype.slice(from) / slice(0, to) with 0-based indices
SliceFrom(s, i) == SubSeq(s, i + 1, Len(s))

SliceTo(s, i) == SubSeq(s, 1, i)

\* String.prototype.includes
Includes(s, sub) ==
    \E i \in 0..(Len(s) - Len(sub)) : SubSeq(s, i + 1, i + Len(sub)) = sub

\* String.prototype.lastIndexOf for a one-character needle: 0-based, -1 if absent
LastIndexOf(s, c) ==
    LET hits == {i \in 1..Len(s) : s[i] = c}
    IN  IF hits = {} THEN -1
        ELSE (CHOOSE i \in hits : \A j \in hits : j <= i) - 1

\* String.prototype.trim
RECURSIVE TrimStart(_)
TrimStart(s) ==
    IF s # <<>> /\ Head(s) \in Ws THEN TrimStart(Tail(s)) ELSE s

RECURSIVE TrimEnd(_)
TrimEnd(s) ==
    IF s # <<>> /\ s[Len(s)] \in Ws THEN TrimEnd(SubSeq(s, 1, Len(s) - 1)) ELSE s

Trim(s) == TrimEnd(TrimStart(s))

\* decimal digits of a non-negative integer (template-literal interpolation)
RECURSIVE IntToStr(_)
IntToStr(n) ==
    LET d == <<"0", "1", "2", "3", "4", "5", "6", "7", "8", "9">>[(n % 10) + 1]
    IN  IF n < 10 THEN <<d>> ELSE IntToStr(n \div 10) \o <<d>>

----------------------------------------------------------------------------
(* JavaScript values *)

Undefined == [t |-> "undefined"]

Null == [t |-> "null"]

Str(s) == [t |-> "string", s |-> s]

\* a number: an integer n, n + 1/2 (kind "frac"), or NaN
Num(kind, n) == [t |-> "number", kind |-> kind, n |-> n]

Int_(n) == Num("int", n)

Bool(b) == [t |-> "boolean", b |-> b]

Arr(items) == [t |-> "array", items |-> items]

\* an object: its own enumerable entries <<key, value>> in enumeration order
Obj(entries) == [t |-> "object", entries |-> entries]

TypeOf(v) == IF v.t \in {"null", "array"} THEN "object" ELSE v.t

\* ToBoolean
Truthy(v) ==
    CASE v.t = "undefined" -> FALSE
      [] v.t = "null"      -> FALSE
      [] v.t = "string"    -> v.s # <<>>
      [] v.t = "number"    -> ~(v.kind = "nan" \/ (v.kind = "int" /\ v.n = 0))
      [] v.t = "boolean"   -> v.b
      [] OTHER             -> TRUE

\* Number.isInteger
IsInteger(v) == v.t = "number" /\ v.kind = "int"

\* v <= 0 for a number v (every comparison with NaN is false)
LeqZero(v) ==
    CASE v.kind = "int"  -> v.n <= 0
      [] v.kind = "frac" -> v.n < 0
      [] OTHER           -> FALSE

----------------------------------------------------------------------------
(* utils/constants.ts *)

FANART_API_BASE_URL ==
    <<"h", "t", "t", "p", "s", ":", "/", "/">>
    \o <<"w", "e", "b", "s", "e", "r", "v", "i", "c", "e", ".">>
    \o <<"f", "a", "n", "a", "r", "t", ".", "t", "v", "/", "v", "3">>

DEFAULT_HEADERS ==
    << <<"Content-Type", "application/json">>,
       <<"User-Agent", "Deno-Fanart-Client/1.0.0">> >>

DEFAULT_TIMEOUT == 10000

PREVIEW_SUFFIX == <<"/", "p", "r", "e", "v", "i", "e", "w">>

\* the literal of the guard url.includes("fanart.tv")
FanartHost == <<"f", "a", "n", "a", "r", "t", ".", "t", "v">>

\* ENDPOINTS.*.GET: prefix + interpolated identifier
EndpointGet(prefix, id) == prefix \o id

\* ENDPOINTS.*.LATEST: `${prefix}/latest${date ? `/${date}` : ""}`
EndpointLatest(prefix, date) ==
    prefix \o <<"/", "l", "a", "t", "e", "s", "t">>
    \o (IF Truthy(date) THEN <<"/">> \o date.s ELSE <<>>)

MoviesPath == <<"/", "m", "o", "v", "i", "e", "s">>

MusicPath == <<"/", "m", "u", "s", "i", "c">>

AlbumsPath == MusicPath \o <<"/", "a", "l", "b", "u", "m", "s">>

LabelsPath == MusicPath \o <<"/", "l", "a", "b", "e", "l", "s">>

TvPath == <<"/", "t", "v">>

----------------------------------------------------------------------------
(* utils/errors.ts *)

\* An error: its class, its statusCode (a set: empty when undefined), its
\* message as the literal part of the template and the interpolated text,
\* and its response field (a set: empty when undefined).
MkError(cls, status, lit, text, response) ==
    [cls |-> cls, statusCode |-> status, lit |-> lit, text |-> text,
     response |-> response]

NoError == [cls |-> "none"]

\* new Error(message): not part of the FanartApiError hierarchy
PlainError(lit) == MkError("Error", {}, lit, <<>>, {})

FanartApiError(lit, text, status, response) ==
    MkError("FanartApiError", status, lit, text, response)

AuthenticationError(lit, text) == MkError("AuthenticationError", {401}, lit, text, {})

RateLimitError(lit, text) == MkError("RateLimitError", {429}, lit, text, {})

NotFoundError(lit, text) == MkError("NotFoundError", {404}, lit, text, {})

\* TimeoutError without its status code
TimeoutErrorNoStatus(lit, text) == MkError("TimeoutError", {}, lit, text, {})

TimeoutError(lit, text) == MkError("TimeoutError", {408}, lit, text, {})

NetworkError(lit, text) == MkError("NetworkError", {}, lit, text, {})

\* e instanceof FanartApiError
IsFanartApiError(e) ==
    e.cls \in {"FanartApiError", "AuthenticationError", "RateLimitError",
               "NotFoundError", "TimeoutError", "NetworkError"}

----------------------------------------------------------------------------
(* BaseClient.convertToPreviewUrl and BaseClient.processImageUrls *)

\* convertToPreviewUrl without the guard against double processing
convertToPreviewUrlNoGuard(url) ==
    IF ~Includes(url, FanartHost) THEN url
    ELSE LET lastDotIndex == LastIndexOf(url, ".")
         IN  IF lastDotIndex = -1 THEN url \o PREVIEW_SUFFIX
             ELSE SliceTo(url, lastDotIndex) \o PREVIEW_SUFFIX
                  \o SliceFrom(url, lastDotIndex)

\* convertToPreviewUrl that looks for the extension in the last path segment
convertToPreviewUrlLastSegment(url) ==
    IF ~Includes(url, FanartHost) THEN url
    ELSE IF Includes(url, PREVIEW_SUFFIX) THEN url
    ELSE LET lastDotIndex == LastIndexOf(url, ".")
         IN  IF lastDotIndex <= LastIndexOf(url, "/") THEN url \o PREVIEW_SUFFIX
             ELSE SliceTo(url, lastDotIndex) \o PREVIEW_SUFFIX
                  \o SliceFrom(url, lastDotIndex)

\* convertToPreviewUrl without the guard on "fanart.tv"
convertToPreviewUrlNoHostGuard(url) ==
    IF Includes(url, PREVIEW_SUFFIX) THEN url
    ELSE LET lastDotIndex == LastIndexOf(url, ".")
         IN  IF lastDotIndex = -1 THEN url \o PREVIEW_SUFFIX
             ELSE SliceTo(url, lastDotIndex) \o PREVIEW_SUFFIX
                  \o SliceFrom(url, lastDotIndex)

convertToPreviewUrl(url) ==
    IF ~Includes(url, FanartHost) THEN url
    ELSE IF Includes(url, PREVIEW_SUFFIX) THEN url
    ELSE LET lastDotIndex == LastIndexOf(url, ".")
         IN  IF lastDotIndex = -1 THEN url \o PREVIEW_SUFFIX
             ELSE SliceTo(url, lastDotIndex) \o PREVIEW_SUFFIX
                  \o SliceFrom(url, lastDotIndex)

\* processImageUrls that rewrites the url of an object but does not descend
processImageUrlsShallow(data, usePreview) ==
    IF ~usePreview \/ ~Truthy(data) THEN data
    ELSE IF data.t = "object"
    THEN Obj([i \in 1..Len(data.entries) |->
                LET key   == data.entries[i][1]
                    value == data.entries[i][2]
                IN  IF key = "url" /\ TypeOf(value) = "string"
                    THEN <<key, Str(convertToPreviewUrl(value.s))>>
                    ELSE <<key, value>>])
    ELSE data

RECURSIVE processImageUrls(_, _)
processImageUrls(data, usePreview) ==
    IF ~usePreview \/ ~Truthy(data) THEN data
    ELSE IF data.t = "array"
    THEN Arr([i \in 1..Len(data.items) |->
                processImageUrls(data.items[i], usePreview)])
    ELSE IF data.t = "object"
    THEN Obj([i \in 1..Len(data.entries) |->
                LET key   == data.entries[i][1]
                    value == data.entries[i][2]
                IN  IF key = "url" /\ TypeOf(value) = "string"
                    THEN <<key, Str(convertToPreviewUrl(value.s))>>
                    ELSE <<key, processImageUrls(value, usePreview)>>])
    ELSE data

----------------------------------------------------------------------------
(* Constructors: BaseClient, the modules, and the Fanart facade *)

ModuleNames == {"movie", "music", "artists", "tv"}

NoInstance == [cls |-> "none"]

\* the fields a BaseClient instance holds
Instance(cls, apiKey) ==
    [cls |-> cls, apiKey |-> apiKey, baseUrl |-> FANART_API_BASE_URL]

KeyMessage == "API key is required and must be a non-empty string"

\* KeyRejected without the trim
KeyRejectedNoTrim(apiKey) ==
    \/ ~Truthy(apiKey)
    \/ TypeOf(apiKey) # "string"

\* the guard shared by BaseClient's and Fanart's constructors
KeyRejected(apiKey) ==
    \/ ~Truthy(apiKey)
    \/ TypeOf(apiKey) # "string"
    \/ Len(Trim(apiKey.s)) = 0

\* BaseClient.constructor: the error it throws, or NoError
BaseClientThrows(apiKey) ==
    IF KeyRejected(apiKey) THEN AuthenticationError(KeyMessage, <<>>) ELSE NoError

\* BaseClient.constructor: the instance it initialises when it does not throw
BaseClientNew(cls, apiKey) == Instance(cls, Trim(apiKey.s))

\* Fanart.constructor: the error it throws, or NoError
FanartThrows(apiKey) ==
    IF KeyRejected(apiKey) THEN PlainError(KeyMessage) ELSE NoError

NoModules == [m \in ModuleNames |-> NoInstance]

\* the api keys handed to constructors
ApiKeys ==
    { Str(<<>>), Str(<<" ">>), Str(<<" ", "\t">>), Str(<<"k">>),
      Str(<<" ", "k", "\n">>), Null, Undefined, Int_(7) }

Unbuilt == modules = NoModules

\* new MovieModule(k), new ArtistsModule(k), new TvModule(k)
NewModule(name, cls, apiKey) ==
    /\ Unbuilt
    /\ built' = [cls |-> cls, apiKey |-> apiKey]
    /\ thrown' = BaseClientThrows(apiKey)
    /\ modules' = IF thrown' = NoError
                  THEN [modules EXCEPT ![name] = BaseClientNew(cls, apiKey)]
                  ELSE modules
    /\ UNCHANGED <<calls, u, once, twice>>

\* new MusicModule(k): super(k), then this.artists = new ArtistsModule(k)
NewMusicModule(apiKey) ==
    /\ Unbuilt
    /\ built' = [cls |-> "MusicModule", apiKey |-> apiKey]
    /\ thrown' = BaseClientThrows(apiKey)
    /\ modules' = IF thrown' = NoError
                  THEN [modules EXCEPT
                          !["music"] = BaseClientNew("MusicModule", apiKey),
                          !["artists"] = BaseClientNew("ArtistsModule", apiKey)]
                  ELSE modules
    /\ UNCHANGED <<calls, u, once, twice>>

\* new Fanart(k): its own guard, then the three modules built from the trimmed key
NewFanart(apiKey) ==
    /\ Unbuilt
    /\ built' = [cls |-> "Fanart", apiKey |-> apiKey]
    /\ thrown' = IF FanartThrows(apiKey) # NoError THEN FanartThrows(apiKey)
                 ELSE BaseClientThrows(Str(Trim(apiKey.s)))
    /\ modules' =
         IF thrown' = NoError
         THEN LET trimmedApiKey == Str(Trim(apiKey.s))
              IN  [ movie   |-> BaseClientNew("MovieModule", trimmedApiKey),
                    music   |-> BaseClientNew("MusicModule", trimmedApiKey),
                    artists |-> BaseClientNew("ArtistsModule", trimmedApiKey),
                    tv      |-> BaseClientNew("TvModule", trimmedApiKey) ]
         ELSE modules
    /\ UNCHANGED <<calls, u, once, twice>>

----------------------------------------------------------------------------
(* Argument validation of the accessors *)

Accessors ==
    { "movie.get", "movie.latest", "music.artists.get", "music.artists.latest",
      "music.album", "music.label", "tv.get", "tv.latest" }

\* the module instance an accessor is a method of
ModuleOf(acc) ==
    CASE acc \in {"movie.get", "movie.latest"}                      -> "movie"
      [] acc \in {"music.artists.get", "music.artists.latest"}      -> "artists"
      [] acc \in {"music.album", "music.label"}                     -> "music"
      [] OTHER                                                      -> "tv"

\* ToString of a string or of a non-negative integer
ToStr(v) == IF v.t = "string" THEN v.s ELSE IntToStr(v.n)

\* /^\d{4}-\d{2}-\d{2}$/.test(s)
DatePatternTest(s) ==
    /\ Len(s) = 10
    /\ \A i \in {1, 2, 3, 4, 6, 7, 9, 10} : s[i] \in Digits
    /\ s[5] = "-"
    /\ s[8] = "-"

\* IdRejected with  id < 0  for  id <= 0
IdRejectedZeroPasses(id) == ~IsInteger(id) \/ id.n < 0

\* MovieModule.get / TvModule.get
IdRejected(id) == ~IsInteger(id) \/ LeqZero(id)

\* MbidRejected without the trim
MbidRejectedNoTrim(mbid) ==
    \/ ~Truthy(mbid)
    \/ TypeOf(mbid) # "string"

\* ArtistsModule.get / MusicModule.album / MusicModule.label
MbidRejected(mbid) ==
    \/ ~Truthy(mbid)
    \/ TypeOf(mbid) # "string"
    \/ Len(Trim(mbid.s)) = 0

\* MovieModule.latest / TvModule.latest
DateRejected(date) == Truthy(date) /\ ~DatePatternTest(ToStr(date))

\* ArtistsModule.latest
ArtistsDateRejected(date) ==
    Truthy(date) /\ (TypeOf(date) # "string" \/ ~DatePatternTest(date.s))

MbidMessage == "MusicBrainz ID is required and must be a non-empty string"

DateMessage == "Date must be in YYYY-MM-DD format"

\* the error an accessor throws before calling makeRequest, or NoError
Validate(acc, arg) ==
    CASE acc = "movie.get" ->
           IF IdRejected(arg)
           THEN PlainError("Movie ID must be a positive integer") ELSE NoError
      [] acc = "tv.get" ->
           IF IdRejected(arg)
           THEN PlainError("TVDB ID must be a positive integer") ELSE NoError
      [] acc \in {"music.artists.get", "music.album", "music.label"} ->
           IF MbidRejected(arg) THEN PlainError(MbidMessage) ELSE NoError
      [] acc = "music.artists.latest" ->
           IF ArtistsDateRejected(arg) THEN PlainError(DateMessage) ELSE NoError
      [] OTHER ->
           IF DateRejected(arg) THEN PlainError(DateMessage) ELSE NoError

\* Endpoint with the MBID interpolated as it was given
EndpointUntrimmed(acc, arg) ==
    CASE acc = "movie.get"            -> EndpointGet(MoviesPath \o <<"/">>, IntToStr(arg.n))
      [] acc = "tv.get"               -> EndpointGet(TvPath \o <<"/">>, IntToStr(arg.n))
      [] acc = "music.artists.get"    -> EndpointGet(MusicPath \o <<"/">>, arg.s)
      [] acc = "music.album"          -> EndpointGet(AlbumsPath \o <<"/">>, arg.s)
      [] acc = "music.label"          -> EndpointGet(LabelsPath \o <<"/">>, arg.s)
      [] acc = "movie.latest"         -> EndpointLatest(MoviesPath, arg)
      [] acc = "music.artists.latest" -> EndpointLatest(MusicPath, arg)
      [] OTHER                        -> EndpointLatest(TvPath, arg)

\* the endpoint an accessor builds once its argument passed validation
Endpoint(acc, arg) ==
    CASE acc = "movie.get"            -> EndpointGet(MoviesPath \o <<"/">>, IntToStr(arg.n))
      [] acc = "tv.get"               -> EndpointGet(TvPath \o <<"/">>, IntToStr(arg.n))
      [] acc = "music.artists.get"    -> EndpointGet(MusicPath \o <<"/">>, Trim(arg.s))
      [] acc = "music.album"          -> EndpointGet(AlbumsPath \o <<"/">>, Trim(arg.s))
      [] acc = "music.label"          -> EndpointGet(LabelsPath \o <<"/">>, Trim(arg.s))
      [] acc = "movie.latest"         -> EndpointLatest(MoviesPath, arg)
      [] acc = "music.artists.latest" -> EndpointLatest(MusicPath, arg)
      [] OTHER                        -> EndpointLatest(TvPath, arg)

\* the options an accessor hands on to makeRequest: MovieModule.latest and
\* TvModule.latest take no options parameter and pass none
OptionsPassed(acc, options) ==
    IF acc \in {"movie.latest", "tv.latest"} THEN Undefined ELSE options

\* own property lookup obj[key]; Undefined when absent
GetProp(obj, key) ==
    LET hits == {i \in 1..Len(obj.entries) : obj.entries[i][1] = key}
    IN  IF hits = {} THEN Undefined
        ELSE obj.entries[CHOOSE i \in hits : TRUE][2]

\* options?.usePreview, as the condition of an if
UsePreview(options) ==
    IF options.t \in {"undefined", "null"} THEN FALSE
    ELSE Truthy(GetProp(options, "usePreview"))

----------------------------------------------------------------------------
(* BaseClient.makeRequest *)

Slots == {1, 2}

\* the promise an accessor returned
Pending == [state |-> "pending"]

Resolved(data) == [state |-> "resolved", data |-> data]

Rejected(error) == [state |-> "rejected", error |-> error]

IdleCall ==
    [ pc |-> "idle", acc |-> "none", arg |-> Undefined, options |-> Undefined,
      requests |-> <<>>, timer |-> "none", timeoutMs |-> {}, aborted |-> FALSE,
      status |-> {},
      bodyText |-> {}, errorText |-> {}, body |-> {}, raised |-> {}, usePreview |-> FALSE,
      outcome |-> Pending ]

\* errors of the platform: what fetch, response.json() and the abort signal throw
PlatformError(cls, message) == MkError(cls, {}, "", message, {})

AbortError == PlatformError("AbortError", <<"a", "b", "o", "r", "t", "e", "d">>)

FetchWord == <<"f", "e", "t", "c", "h">>

TransportErrors ==
    { PlatformError("TypeError", FetchWord \o <<" ", "f", "a", "i", "l", "e", "d">>),
      PlatformError("TypeError", <<"d", "n", "s", " ", "e", "r", "r", "o", "r">>),
      PlatformError("Error", <<"r", "e", "s", "e", "t">>) }

JsonErrors ==
    { PlatformError("SyntaxError", <<"U", "n", "e", "x", "p", "e", "c", "t", "e", "d">>),
      PlatformError("TypeError", <<"b", "o", "d", "y", " ", "e", "r", "r", "o", "r">>) }

\* clearTimeout(timeoutId)
ClearTimeout(timer) == IF timer = "armed" THEN "cleared" ELSE timer

\* Catch with the AbortError branch lost
CatchWithoutAbort(error) ==
    IF IsFanartApiError(error) THEN error
    ELSE IF error.cls = "TypeError" /\ Includes(error.text, FetchWord)
    THEN NetworkError("Network error: ", error.text)
    ELSE IF error.cls = "SyntaxError"
    THEN FanartApiError("Invalid JSON response: ", error.text, {}, {})
    ELSE FanartApiError("Unexpected error: ", error.text, {}, {})

\* Catch with the SyntaxError branch lost
CatchWithoutSyntaxError(error) ==
    IF error.cls = "AbortError"
    THEN TimeoutError("Request timed out after 10 seconds", <<>>)
    ELSE IF IsFanartApiError(error) THEN error
    ELSE IF error.cls = "TypeError" /\ Includes(error.text, FetchWord)
    THEN NetworkError("Network error: ", error.text)
    ELSE FanartApiError("Unexpected error: ", error.text, {}, {})

\* Catch that rethrows an error it does not recognise as it caught it
CatchRethrowsUnknown(error) ==
    IF error.cls = "AbortError"
    THEN TimeoutError("Request timed out after 10 seconds", <<>>)
    ELSE IF IsFanartApiError(error) THEN error
    ELSE IF error.cls = "TypeError" /\ Includes(error.text, FetchWord)
    THEN NetworkError("Network error: ", error.text)
    ELSE IF error.cls = "SyntaxError"
    THEN FanartApiError("Invalid JSON response: ", error.text, {}, {})
    ELSE error

\* the catch block of makeRequest: the error it throws for a caught error
Catch(error) ==
    IF error.cls = "AbortError"
    THEN TimeoutError("Request timed out after 10 seconds", <<>>)
    ELSE IF IsFanartApiError(error) THEN error
    ELSE IF error.cls = "TypeError" /\ Includes(error.text, FetchWord)
    THEN NetworkError("Network error: ", error.text)
    ELSE IF error.cls = "SyntaxError"
    THEN FanartApiError("Invalid JSON response: ", error.text, {}, {})
    ELSE FanartApiError("Unexpected error: ", error.text, {}, {})

\* response.ok
Ok(status) == status >= 200 /\ status <= 299

\* StatusError that leaves the body text out of the error
StatusErrorWithoutText(status, errorText) ==
    CASE status = 401 -> AuthenticationError("Invalid API key: ", <<>>)
      [] status = 404 -> NotFoundError("Resource not found: ", <<>>)
      [] status = 429 -> RateLimitError("Rate limit exceeded: ", <<>>)
      [] OTHER -> FanartApiError("API request failed: ", <<>>, {status}, {})

\* StatusError with the 404 case lost
StatusErrorWithout404(status, errorText) ==
    CASE status = 401 -> AuthenticationError("Invalid API key: ", errorText)
      [] status = 429 -> RateLimitError("Rate limit exceeded: ", errorText)
      [] OTHER -> FanartApiError("API request failed: ", errorText, {status}, {errorText})

\* the switch on response.status of a response that is not ok
StatusError(status, errorText) ==
    CASE status = 401 -> AuthenticationError("Invalid API key: ", errorText)
      [] status = 404 -> NotFoundError("Resource not found: ", errorText)
      [] status = 429 -> RateLimitError("Rate limit exceeded: ", errorText)
      [] OTHER -> FanartApiError("API request failed: ", errorText, {status}, {errorText})

UnknownError == <<"U", "n", "k", "n", "o", "w", "n", " ", "e", "r", "r", "o", "r">>

\* Request without the "api-key" entry of the headers
RequestWithoutKey(instance, endpoint) ==
    [ method  |-> "GET",
      url     |-> instance.baseUrl \o endpoint,
      headers |-> DEFAULT_HEADERS ]

\* Request with the content type and the key as its only headers
RequestTwoHeaders(instance, endpoint) ==
    [ method  |-> "GET",
      url     |-> instance.baseUrl \o endpoint,
      headers |-> << <<"Content-Type", "application/json">>,
                     <<"api-key", instance.apiKey>> >> ]

\* the fetch init of makeRequest
Request(instance, endpoint) ==
    [ method  |-> "GET",
      url     |-> instance.baseUrl \o endpoint,
      headers |-> DEFAULT_HEADERS \o << <<"api-key", instance.apiKey>> >> ]

\* An accessor is called: it validates its argument and either throws, or
\* runs makeRequest up to its first await (timer armed, fetch issued).
Invoke(c, acc, arg, options) ==
    /\ calls[c].pc = "idle"
    /\ modules[ModuleOf(acc)] # NoInstance
    /\ LET error == Validate(acc, arg)
           start == [IdleCall EXCEPT !.acc = acc, !.arg = arg, !.options = options]
       IN  calls' = [calls EXCEPT ![c] =
             IF error # NoError
             THEN [start EXCEPT !.pc = "settled", !.outcome = Rejected(error)]
             ELSE [start EXCEPT
                     !.pc = "fetch",
                     !.usePreview = UsePreview(OptionsPassed(acc, options)),
                     !.timer = "armed",
                     !.timeoutMs = {DEFAULT_TIMEOUT},
                     !.requests = <<Request(modules[ModuleOf(acc)],
                                            Endpoint(acc, arg))>>]]
    /\ UNCHANGED <<modules, built, thrown, u, once, twice>>

\* TimerFires with one AbortController shared by the calls of a client: the
\* abort reaches every call that has a timer armed
TimerFiresSharedController(c) ==
    /\ calls[c].timer = "armed"
    /\ calls' = [d \in Slots |->
                   IF d = c
                   THEN [calls[d] EXCEPT !.timer = "fired", !.aborted = TRUE]
                   ELSE IF calls[d].timer = "armed"
                        THEN [calls[d] EXCEPT !.aborted = TRUE]
                        ELSE calls[d]]
    /\ UNCHANGED <<modules, built, thrown, u, once, twice>>

\* The timer of a call fires: controller.abort()
TimerFires(c) ==
    /\ calls[c].timer = "armed"
    /\ calls' = [calls EXCEPT ![c].timer = "fired", ![c].aborted = TRUE]
    /\ UNCHANGED <<modules, built, thrown, u, once, twice>>

\* Caught without the clearTimeout of the catch block
CaughtKeepsTimer(call, error) ==
    [call EXCEPT !.pc = "settled",
                 !.raised = {error},
                 !.outcome = Rejected(Catch(error))]

\* Caught that issues the request once more before giving up
CaughtRetries(call, error) ==
    [call EXCEPT !.pc = "settled",
                 !.timer = ClearTimeout(call.timer),
                 !.raised = {error},
                 !.requests = call.requests \o call.requests,
                 !.outcome = Rejected(Catch(error))]

\* The settlement of makeRequest through its catch block
Caught(call, error) ==
    [call EXCEPT !.pc = "settled",
                 !.timer = ClearTimeout(call.timer),
                 !.raised = {error},
                 !.outcome = Rejected(Catch(error))]

\* The aborted fetch rejects with an AbortError
FetchAborted(c) ==
    /\ calls[c].pc = "fetch"
    /\ calls[c].aborted
    /\ calls' = [calls EXCEPT ![c] = Caught(calls[c], AbortError)]
    /\ UNCHANGED <<modules, built, thrown, u, once, twice>>

\* fetch rejects: the transport failed before any response
FetchFails(c, error) ==
    /\ calls[c].pc = "fetch"
    /\ ~calls[c].aborted
    /\ calls' = [calls EXCEPT ![c] = Caught(calls[c], error)]
    /\ UNCHANGED <<modules, built, thrown, u, once, twice>>

\* FetchResponds that leaves the timer armed
FetchRespondsKeepsTimer(c, status) ==
    /\ calls[c].pc = "fetch"
    /\ ~calls[c].aborted
    /\ calls' = [calls EXCEPT ![c].status = {status},
                              ![c].pc = IF Ok(status) THEN "json" ELSE "text"]
    /\ UNCHANGED <<modules, built, thrown, u, once, twice>>

\* fetch resolves with a response: the timer is cleared, the body is awaited
FetchResponds(c, status) ==
    /\ calls[c].pc = "fetch"
    /\ ~calls[c].aborted
    /\ calls' = [calls EXCEPT ![c].timer = ClearTimeout(calls[c].timer),
                              ![c].status = {status},
                              ![c].pc = IF Ok(status) THEN "json" ELSE "text"]
    /\ UNCHANGED <<modules, built, thrown, u, once, twice>>

\* ErrorBodyRead of a client that forgets its key when a call fails
ErrorBodyReadDropsKey(c, text) ==
    /\ calls[c].pc = "text"
    /\ LET errorText == IF text = {} THEN UnknownError ELSE CHOOSE t \in text : TRUE
           status    == CHOOSE s \in calls[c].status : TRUE
       IN  calls' = [calls EXCEPT ![c] =
             Caught([calls[c] EXCEPT !.bodyText = text, !.errorText = {errorText}],
                    StatusError(status, errorText))]
    /\ modules' = [m \in ModuleNames |->
                     IF modules[m] = NoInstance THEN NoInstance
                     ELSE [modules[m] EXCEPT !.apiKey = <<>>]]
    /\ UNCHANGED <<built, thrown, u, once, twice>>

\* response.text() of a response that is not ok settles: text is the body
\* text, or the empty set when reading failed
ErrorBodyRead(c, text) ==
    /\ calls[c].pc = "text"
    /\ LET errorText == IF text = {} THEN UnknownError ELSE CHOOSE t \in text : TRUE
           status    == CHOOSE s \in calls[c].status : TRUE
       IN  calls' = [calls EXCEPT ![c] =
             Caught([calls[c] EXCEPT !.bodyText = text, !.errorText = {errorText}],
                    StatusError(status, errorText))]
    /\ UNCHANGED <<modules, built, thrown, u, once, twice>>

\* Returned with the usePreview test lost: every body is processed
ReturnedAlwaysPreview(data, usePreview) == processImageUrls(data, TRUE)

\* what makeRequest returns for the parsed body
Returned(data, usePreview) ==
    IF usePreview THEN processImageUrls(data, TRUE) ELSE data

\* response.json() resolves with the parsed body
JsonParsed(c, data) ==
    /\ calls[c].pc = "json"
    /\ calls' = [calls EXCEPT ![c].pc = "settled",
                              ![c].body = {data},
                              ![c].outcome =
                                  Resolved(Returned(data, calls[c].usePreview))]
    /\ UNCHANGED <<modules, built, thrown, u, once, twice>>

\* response.json() rejects: the body is not JSON, or reading it failed
JsonFails(c, error) ==
    /\ calls[c].pc = "json"
    /\ calls' = [calls EXCEPT ![c] = Caught(calls[c], error)]
    /\ UNCHANGED <<modules, built, thrown, u, once, twice>>

\* The caller has consumed the outcome of a settled call
Forget(c) ==
    /\ calls[c].pc = "settled"
    /\ calls' = [calls EXCEPT ![c] = IdleCall]
    /\ UNCHANGED <<modules, built, thrown, u, once, twice>>

----------------------------------------------------------------------------
(* The inputs: arguments of the accessors and behaviours of the upstream *)

IdArgs ==
    { Int_(-1), Int_(0), Int_(1), Int_(12), Num("frac", 1), Num("frac", 0),
      Num("frac", -2), Num("nan", 0) }

MbidArgs ==
    { Str(<<>>), Str(<<" ">>), Str(<<"\t", " ">>), Str(<<"a">>),
      Str(<<" ", "a", "b", " ">>), Null, Undefined, Int_(5) }

Date20240101 == <<"2", "0", "2", "4", "-", "0", "1", "-", "0", "1">>

DateArgs ==
    { Undefined, Str(<<>>), Str(Date20240101),
      Str(<<"2", "0", "2", "4", "-", "1", "3", "-", "4", "5">>),
      Str(<<"2", "0", "2", "4", "-", "1", "-", "1">>),
      Str(<<"2", "4", "-", "0", "1", "-", "0", "1">>),
      Str(Date20240101 \o <<"\n">>),
      Str(<<"x">> \o Date20240101),
      Str(<<"2", "0", "2", "4", "/", "0", "1", "/", "0", "1">>),
      Str(<<"2", "0", "2", "4", "-", "0", "a", "-", "0", "1">>) }

ArgsOf(acc) ==
    CASE acc \in {"movie.get", "tv.get"} -> IdArgs
      [] acc \in {"music.artists.get", "music.album", "music.label"} -> MbidArgs
      [] OTHER -> DateArgs

OptionArgs ==
    { Undefined, Obj(<<>>), Obj(<< <<"usePreview", Bool(FALSE)>> >>),
      Obj(<< <<"usePreview", Bool(TRUE)>> >>) }

Statuses == {200, 201, 304, 401, 403, 404, 429, 500}

\* the body text of an error response: empty set when reading it fails
ErrorTexts == { {}, {<<>>}, {<<"n", "o">>} }

Https == <<"h", "t", "t", "p", "s", ":", "/", "/">>

\* https://assets.fanart.tv/fanart/movies/1/p.jpg
PosterUrl ==
    Https \o <<"a", "s", "s", "e", "t", "s", ".">> \o FanartHost
    \o <<"/", "f", "a", "n", "a", "r", "t">> \o MoviesPath
    \o <<"/", "1", "/", "p", ".", "j", "p", "g">>

\* https://fanart.tv/logo : no dot after the host
BareUrl == Https \o FanartHost \o <<"/", "l", "o", "g", "o">>

\* https://example.com/a.jpg : not a fanart.tv url
ForeignUrl ==
    Https \o <<"e", "x", "a", "m", "p", "l", "e", ".", "c", "o", "m">>
    \o <<"/", "a", ".", "j", "p", "g">>

\* https://assets.fanart.tv/preview/p.jpg : already a preview url
PreviewedUrl ==
    Https \o <<"a", "s", "s", "e", "t", "s", ".">> \o FanartHost
    \o PREVIEW_SUFFIX \o <<"/", "p", ".", "j", "p", "g">>

Image(id, url) ==
    Obj(<< <<"id", Str(<<id>>)>>, <<"url", Str(url)>>, <<"likes", Str(<<"5">>)>> >>)

\* the parsed bodies the upstream answers with
Bodies ==
    { Obj(<< <<"name", Str(<<"X">>)>>,
             <<"movieposter", Arr(<<Image("1", PosterUrl)>>)>> >>),
      Obj(<< <<"movieposter", Arr(<<Image("1", PosterUrl), Image("2", ForeignUrl),
                                    Image("3", PreviewedUrl)>>)>>,
             <<"name", Str(<<"X">>)>>,
             <<"moviethumb", Arr(<<>>)>> >>),
      Obj(<< <<"url", Str(BareUrl)>>,
             <<"nested", Obj(<< <<"url", Obj(<< <<"url", Str(PosterUrl)>> >>)>>,
                                <<"link", Str(PosterUrl)>> >>)>>,
             <<"n", Int_(0)>> >>),
      Obj(<< <<"url", Arr(<<Str(PosterUrl), Obj(<< <<"url", Str(PosterUrl)>> >>)>>)>>,
             <<"x", Null>>, <<"ok", Bool(FALSE)>>, <<"e", Str(<<>>)>> >>),
      Arr(<< Image("1", BareUrl), Arr(<<Image("2", PosterUrl)>>), Str(PosterUrl),
             Int_(3) >>),
      Obj(<< <<"url", Str(<<>>)>>, <<"url2", Str(PosterUrl)>> >>),
      Obj(<<>>),
      Arr(<<>>),
      Str(PosterUrl),
      Null,
      Int_(0) }

----------------------------------------------------------------------------
(* The client: construction, accessor calls awaited one at a time *)

Init ==
    /\ modules = NoModules
    /\ built = [cls |-> "none"]
    /\ thrown = NoError
    /\ calls = [c \in Slots |-> IdleCall]
    /\ u = <<>>
    /\ once = {}
    /\ twice = {}

\* the caller awaits each call before it issues the next
OthersIdle(c) == \A d \in Slots \ {c} : calls[d].pc = "idle"

Next ==
    \/ \E k \in ApiKeys : NewFanart(k)
    \/ \E k \in ApiKeys : NewMusicModule(k)
    \/ \E k \in ApiKeys : NewModule("movie", "MovieModule", k)
    \/ \E k \in ApiKeys : NewModule("artists", "ArtistsModule", k)
    \/ \E k \in ApiKeys : NewModule("tv", "TvModule", k)
    \/ \E c \in Slots, acc \in Accessors, o \in OptionArgs :
          \E arg \in ArgsOf(acc) : OthersIdle(c) /\ Invoke(c, acc, arg, o)
    \/ \E c \in Slots : TimerFires(c)
    \/ \E c \in Slots : FetchAborted(c)
    \/ \E c \in Slots, e \in TransportErrors : FetchFails(c, e)
    \/ \E c \in Slots, s \in Statuses : FetchResponds(c, s)
    \/ \E c \in Slots, t \in ErrorTexts : ErrorBodyRead(c, t)
    \/ \E c \in Slots, b \in Bodies : JsonParsed(c, b)
    \/ \E c \in Slots, e \in JsonErrors : JsonFails(c, e)
    \/ \E c \in Slots : Forget(c)

Spec == Init /\ [][Next]_vars

----------------------------------------------------------------------------
(* The preview rewrite as a pure function: convertToPreviewUrl applied to   *)
(* a url, and again to its result                                          *)

----------------------------------------------------------------------------
(* Calls issued together on one client, as by Promise.all: a call is started
   while another is in flight, and their timers and responses interleave *)

ConcKey == Str(<<" ", "k", "\n">>)

ConcAccessors == {"movie.get", "music.album"}

ConcArgsOf(acc) == IF acc = "movie.get" THEN {Int_(12)} ELSE {Str(<<"a">>)}

ConcOptionArgs == {Undefined, Obj(<< <<"usePreview", Bool(TRUE)>> >>)}

ConcStatuses == {200, 404}

ConcErrorTexts == { {<<"n", "o">>} }

NextConc ==
    \/ Unbuilt /\ NewFanart(ConcKey)
    \/ \E c \in Slots, acc \in ConcAccessors, o \in ConcOptionArgs :
          \E arg \in ConcArgsOf(acc) : Invoke(c, acc, arg, o)
    \/ \E c \in Slots : TimerFires(c)
    \/ \E c \in Slots : FetchAborted(c)
    \/ \E c \in Slots, e \in TransportErrors : FetchFails(c, e)
    \/ \E c \in Slots, s \in ConcStatuses : FetchResponds(c, s)
    \/ \E c \in Slots, t \in ConcErrorTexts : ErrorBodyRead(c, t)
    \/ \E c \in Slots, b \in Bodies : JsonParsed(c, b)
    \/ \E c \in Slots, e \in JsonErrors : JsonFails(c, e)
    \/ \E c \in Slots : Forget(c)

SpecConc == Init /\ [][NextConc]_vars

\* What the runtime guarantees of a call: an armed timer that is not cleared
\* fires (setTimeout), and a fetch whose signal is aborted rejects. The
\* upstream guarantees nothing: it may never answer, and may stall mid-body.
Fairness ==
    \A c \in Slots : WF_vars(TimerFires(c)) /\ WF_vars(FetchAborted(c))

SpecLive == Init /\ [][Next]_vars /\ Fairness

UrlPieces ==
    { <<"a">>, <<".">>, <<"/">>, FanartHost, PREVIEW_SUFFIX,
      <<"f", "a", "n", "a", "r", "t">>, <<"t", "v">>,
      <<"/", "p", "r", "e">>, <<"v", "i", "e", "w">>, <<".", "j", "p", "g">> }

RECURSIVE UrlsOf(_)
UrlsOf(n) ==
    IF n = 0 THEN {<<>>}
    ELSE UrlsOf(n - 1) \cup {p \o q : p \in UrlPieces, q \in UrlsOf(n - 1)}

Urls == UrlsOf(MaxParts)

InitUrl ==
    /\ modules = NoModules
    /\ built = [cls |-> "none"]
    /\ thrown = NoError
    /\ calls = [c \in Slots |-> IdleCall]
    /\ u \in Urls
    /\ once = {}
    /\ twice = {}

RewriteOnce ==
    /\ once = {}
    /\ once' = {convertToPreviewUrl(u)}
    /\ UNCHANGED <<modules, built, thrown, calls, u, twice>>

RewriteTwice ==
    /\ once # {}
    /\ twice = {}
    /\ twice' = {convertToPreviewUrl(r) : r \in once}
    /\ UNCHANGED <<modules, built, thrown, calls, u, once>>

NextUrl == RewriteOnce \/ RewriteTwice

SpecUrl == InitUrl /\ [][NextUrl]_vars

----------------------------------------------------------------------------
(* Properties *)

\* the calls that have left the idle state, and those that have settled
Started(c) == calls[c].pc # "idle"

Settled(c) == calls[c].pc = "settled"

RejectedWith(c, cls) ==
    /\ calls[c].outcome.state = "rejected"
    /\ calls[c].outcome.error.cls = cls

\* a status outside the success range 200..299
NonSuccess(s) == s < 200 \/ s > 299

\* the error kind the status of a response names
KindOf(s) ==
    CASE s = 401 -> "AuthenticationError"
      [] s = 404 -> "NotFoundError"
      [] s = 429 -> "RateLimitError"
      [] OTHER   -> "FanartApiError"

\* C1: a call whose response has a non-success status rejects, and the kind of
\* the error is decided by the status alone: 401 AuthenticationError, 404
\* NotFoundError, 429 RateLimitError, any other status s the base
\* FanartApiError; the error carries the status as its statusCode.
C1_StatusDecidesError ==
    \A c \in Slots : \A s \in calls[c].status :
        (Settled(c) /\ NonSuccess(s)) =>
            /\ RejectedWith(c, KindOf(s))
            /\ calls[c].outcome.error.statusCode = {s}

C1_Witness ==
    \E c \in Slots :
        /\ Settled(c)
        /\ calls[c].status = {500}
        /\ RejectedWith(c, "FanartApiError")
        /\ calls[c].outcome.error.statusCode = {500}

\* C2: when the 10,000 ms timer of a call fires, no response has been obtained,
\* the request is aborted, and the call can settle only by rejecting with
\* TimeoutError; a TimeoutError is delivered only after the abort.
C2_TimeoutAborts ==
    \A c \in Slots :
        /\ calls[c].timer = "fired" =>
              /\ calls[c].timeoutMs = {10000}
              /\ calls[c].aborted
              /\ calls[c].status = {}
              /\ Settled(c) => RejectedWith(c, "TimeoutError")
        /\ RejectedWith(c, "TimeoutError") =>
              calls[c].aborted /\ calls[c].timer = "fired"

C2_Witness ==
    \E c \in Slots :
        Settled(c) /\ calls[c].timer = "fired" /\ RejectedWith(c, "TimeoutError")

\* a number that is not a positive integer: zero, negative, fractional or NaN
NotPositiveInteger(v) ==
    v.t = "number" /\ ~(v.kind = "int" /\ v.n > 0)

\* the call was rejected by argument validation: a plain Error, which is not a
\* FanartApiError, and no request was issued
ValidationFailure(c) ==
    /\ Settled(c)
    /\ RejectedWith(c, "Error")
    /\ ~IsFanartApiError(calls[c].outcome.error)
    /\ calls[c].requests = <<>>
    /\ calls[c].timer = "none"

\* C3: movie.get and tv.get called with a numeric identifier that is not a
\* positive integer reject with a validation error that is not a
\* FanartApiError, and issue no request.
C3_BadIdRejected ==
    \A c \in Slots :
        ( /\ Started(c)
          /\ calls[c].acc \in {"movie.get", "tv.get"}
          /\ NotPositiveInteger(calls[c].arg) ) => ValidationFailure(c)

C3_Witness ==
    \E c \in Slots :
        /\ calls[c].acc = "tv.get"
        /\ calls[c].arg = Num("frac", 1)
        /\ ValidationFailure(c)

\* an identifier that is not a string, or a string of whitespace only (the
\* empty string included)
BlankOrNotString(v) ==
    v.t # "string" \/ \A i \in 1..Len(v.s) : v.s[i] \in Ws

\* C4: music.artists.get, music.album and music.label called with an
\* identifier that is empty, whitespace-only or not a string reject with a
\* validation error, and issue no request.
C4_BadMbidRejected ==
    \A c \in Slots :
        ( /\ Started(c)
          /\ calls[c].acc \in {"music.artists.get", "music.album", "music.label"}
          /\ BlankOrNotString(calls[c].arg) ) => ValidationFailure(c)

C4_Witness ==
    \E c \in Slots :
        /\ calls[c].acc = "music.label"
        /\ calls[c].arg = Str(<<"\t", " ">>)
        /\ ValidationFailure(c)

\* the pattern YYYY-MM-DD: four digits, dash, two digits, dash, two digits
IsYmd(s) ==
    /\ Len(s) = 10
    /\ \A i \in 1..10 : IF i \in {5, 8} THEN s[i] = "-" ELSE s[i] \in Digits

LatestAccessors == {"movie.latest", "music.artists.latest", "tv.latest"}

\* C5: movie.latest, music.artists.latest and tv.latest called with a date
\* string that does not match YYYY-MM-DD reject with a validation error before
\* any request is issued; a date string that matches passes the check.
C5_DatePatternDecides ==
    \A c \in Slots :
        ( /\ Started(c)
          /\ calls[c].acc \in LatestAccessors
          /\ calls[c].arg.t = "string" ) =>
            IF IsYmd(calls[c].arg.s)
            THEN calls[c].requests # <<>>
            ELSE ValidationFailure(c)

\* a key that is not a string, or a string of whitespace only
KeyMissing(v) ==
    v.t # "string" \/ \A i \in 1..Len(v.s) : v.s[i] \in Ws

ModuleClasses == {"MovieModule", "MusicModule", "ArtistsModule", "TvModule"}

NoNetworkActivity == \A c \in Slots : calls[c].requests = <<>>

\* C6: constructing MovieModule, MusicModule, ArtistsModule or TvModule with
\* a key that is empty, whitespace-only, null or not a string throws
\* AuthenticationError; no instance is produced and nothing was sent.
C6_ModuleKeyRejected ==
    (built.cls \in ModuleClasses /\ KeyMissing(built.apiKey)) =>
        /\ thrown.cls = "AuthenticationError"
        /\ thrown.statusCode = {401}
        /\ modules = NoModules
        /\ NoNetworkActivity

C6_Witness ==
    /\ built = [cls |-> "MusicModule", apiKey |-> Str(<<" ", "\t">>)]
    /\ thrown.cls = "AuthenticationError"
    /\ modules = NoModules

\* C7: constructing Fanart with a key that is empty or whitespace-only fails
\* with an Authentication-class error, the kind the module constructors
\* raise, before any module is created.
C7_FanartKeyAuthenticationError ==
    ( /\ built.cls = "Fanart"
      /\ built.apiKey.t = "string"
      /\ KeyMissing(built.apiKey) ) =>
        /\ thrown.cls = "AuthenticationError"
        /\ modules = NoModules
        /\ NoNetworkActivity

\* the tree of a JSON value: its children, the paths into it, the value at a
\* path and the key a value is stored under (none for an array element)
Size(v) ==
    CASE v.t = "array"  -> Len(v.items)
      [] v.t = "object" -> Len(v.entries)
      [] OTHER          -> 0

Child(v, i) == IF v.t = "array" THEN v.items[i] ELSE v.entries[i][2]

RECURSIVE Paths(_)
Paths(v) ==
    {<<>>} \cup UNION { {<<i>> \o p : p \in Paths(Child(v, i))} : i \in 1..Size(v) }

RECURSIVE At(_, _)
At(v, p) == IF p = <<>> THEN v ELSE At(Child(v, Head(p)), Tail(p))

KeyOf(v, p) ==
    IF p = <<>> THEN {}
    ELSE LET parent == At(v, SubSeq(p, 1, Len(p) - 1))
         IN  IF parent.t = "object" THEN {parent.entries[p[Len(p)]][1]} ELSE {}

IsUrlString(v, p) == KeyOf(v, p) = {"url"} /\ At(v, p).t = "string"

\* r is b with every string stored under a key "url" replaced by its preview
\* rewrite, and nothing else changed
PreviewOf(b, r) ==
    /\ Paths(r) = Paths(b)
    /\ \A p \in Paths(b) :
          /\ KeyOf(r, p) = KeyOf(b, p)
          /\ At(r, p).t = At(b, p).t
          /\ IF IsUrlString(b, p)
             THEN /\ At(r, p).s = convertToPreviewUrl(At(b, p).s)
                  /\ Includes(At(b, p).s, FanartHost) =>
                         Includes(At(r, p).s, PREVIEW_SUFFIX)
             ELSE At(b, p).t \notin {"array", "object"} => At(r, p) = At(b, p)

\* C8: a request that succeeds with usePreview true returns the parsed body
\* with every string stored under a key "url", at any depth, replaced by its
\* preview rewrite; keys, key order, array lengths and order and all other
\* values are unchanged, and every url that contained "fanart.tv" contains
\* "/preview" in the result.
C8_PreviewRewritesUrls ==
    \A c \in Slots : \A b \in calls[c].body :
        ( /\ Settled(c)
          /\ calls[c].outcome.state = "resolved"
          /\ calls[c].usePreview ) => PreviewOf(b, calls[c].outcome.data)

C8_Witness ==
    \E c \in Slots : \E b \in calls[c].body :
        /\ Settled(c)
        /\ calls[c].outcome.state = "resolved"
        /\ calls[c].usePreview
        /\ \E p \in Paths(b) :
              /\ Len(p) >= 3
              /\ IsUrlString(b, p)
              /\ At(calls[c].outcome.data, p).s # At(b, p).s

\* the caller asked for no preview: no options, or usePreview absent or false
NoPreviewAsked(options) ==
    \/ options = Undefined
    \/ /\ options.t = "object"
       /\ GetProp(options, "usePreview") \in {Undefined, Bool(FALSE)}

\* C9: a request that succeeds with usePreview false, or with no options,
\* returns exactly the parsed body: no url is rewritten.
C9_NoPreviewReturnsBody ==
    \A c \in Slots :
        ( /\ Settled(c)
          /\ calls[c].outcome.state = "resolved"
          /\ NoPreviewAsked(calls[c].options) ) =>
            calls[c].body = {calls[c].outcome.data}

C9_Witness ==
    \E c \in Slots : \E b \in calls[c].body :
        /\ Settled(c)
        /\ calls[c].outcome.state = "resolved"
        /\ calls[c].options = Obj(<< <<"usePreview", Bool(FALSE)>> >>)
        /\ processImageUrls(b, TRUE) # b
        /\ calls[c].outcome.data = b

\* C10: the preview rewrite is idempotent: rewriting the result of a rewrite
\* gives that result again, for every url.
C10_RewriteIdempotent == twice # {} => twice = once

C10_Witness == twice # {} /\ once # {u} /\ twice = once

\* C11: a url that does not contain "fanart.tv" is returned unchanged by the
\* preview rewrite.
C11_ForeignUrlUnchanged ==
    (once # {} /\ ~Includes(u, FanartHost)) => once = {u}

C11_Witness ==
    /\ once = {u}
    /\ ~Includes(u, FanartHost)
    /\ ~Includes(u, PREVIEW_SUFFIX)
    /\ Includes(u, <<".">>)
    /\ Includes(u, <<"t", "v">>)

\* the url has a file extension: a "." in its last path segment
HasExtension(url) == LastIndexOf(url, ".") > LastIndexOf(url, "/")

\* "/preview" inserted immediately before the final file extension of the
\* url, or appended when the url has none
MarkerBeforeExtension(url) ==
    IF HasExtension(url)
    THEN SubSeq(url, 1, LastIndexOf(url, ".")) \o PREVIEW_SUFFIX
         \o SubSeq(url, LastIndexOf(url, ".") + 1, Len(url))
    ELSE url \o PREVIEW_SUFFIX

\* C12: a url that contains "fanart.tv" and lacks "/preview" is rewritten to
\* the url with "/preview" inserted immediately before its final file
\* extension, or appended at the end when the url has no file extension.
C12_MarkerBeforeExtension ==
    (once # {} /\ Includes(u, FanartHost) /\ ~Includes(u, PREVIEW_SUFFIX)) =>
        once = {MarkerBeforeExtension(u)}

\* the call got no response: fetch rejected, and not because of the abort
TransportFailed(c, e) ==
    /\ Settled(c)
    /\ calls[c].status = {}
    /\ e \in calls[c].raised
    /\ e.cls # "AbortError"

\* C13: when the transport fails before any response is obtained, for a
\* reason other than the timeout abort, the call rejects with NetworkError,
\* whose message wraps the message of the underlying error.
C13_TransportFailureIsNetworkError ==
    \A c \in Slots : \A e \in calls[c].raised :
        TransportFailed(c, e) =>
            /\ RejectedWith(c, "NetworkError")
            /\ calls[c].outcome.error.text = e.text

\* the response had a success status and its body failed to parse as JSON
ParseFailed(c, e) ==
    /\ Settled(c)
    /\ \E s \in calls[c].status : ~NonSuccess(s)
    /\ e \in calls[c].raised
    /\ e.cls = "SyntaxError"

InvalidJson == "Invalid JSON response: "

\* C14: when the response has a success status and its body is not valid
\* JSON, the call rejects with a base FanartApiError whose message is
\* "Invalid JSON response: " followed by the parse failure message, and
\* returns no data; no other failure produces a message that begins so.
C14_InvalidJsonError ==
    \A c \in Slots :
        /\ \A e \in calls[c].raised :
              ParseFailed(c, e) =>
                  /\ RejectedWith(c, "FanartApiError")
                  /\ calls[c].outcome.error.lit = InvalidJson
                  /\ calls[c].outcome.error.text = e.text
                  /\ "data" \notin DOMAIN calls[c].outcome
        /\ ( /\ calls[c].outcome.state = "rejected"
             /\ calls[c].outcome.error.lit = InvalidJson ) =>
               \E e \in calls[c].raised : ParseFailed(c, e)

C14_Witness ==
    \E c \in Slots : \E e \in calls[c].raised :
        /\ ParseFailed(c, e)
        /\ calls[c].status = {200}
        /\ calls[c].outcome.error.lit = InvalidJson

\* the accessor threw at its argument check: the plain Error of a validation
RejectedByValidation(c) ==
    /\ calls[c].outcome.state = "rejected"
    /\ calls[c].outcome.error.cls = "Error"

\* C15: a call of an accessor issues exactly one HTTP GET when its argument
\* passes validation and none when it does not; whatever the call runs into
\* afterwards (timeout, network error, error status, parse failure), it
\* never issues a second request.
C15_OneRequestPerCall ==
    \A c \in Slots :
        Started(c) =>
            /\ Len(calls[c].requests) = IF RejectedByValidation(c) THEN 0 ELSE 1
            /\ \A i \in 1..Len(calls[c].requests) :
                  calls[c].requests[i].method = "GET"

C15_Witness ==
    \E c \in Slots :
        /\ Settled(c)
        /\ calls[c].raised # {}
        /\ calls[c].outcome.state = "rejected"
        /\ Len(calls[c].requests) = 1

\* the caller passed { usePreview: true } to the accessor
PreviewAsked(options) ==
    /\ options.t = "object"
    /\ GetProp(options, "usePreview") = Bool(TRUE)

\* C16: every public accessor accepts the usePreview option: a call of any
\* of the eight accessors that is given { usePreview: true } and succeeds
\* returns the parsed body with its urls rewritten to their preview variant.
C16_EveryAccessorTakesUsePreview ==
    \A c \in Slots : \A b \in calls[c].body :
        ( /\ Settled(c)
          /\ calls[c].acc \in Accessors
          /\ calls[c].outcome.state = "resolved"
          /\ PreviewAsked(calls[c].options) ) =>
            PreviewOf(b, calls[c].outcome.data)

\* a call is aborted by its own timer only, and rejects with TimeoutError
\* only when its own timer fired
OwnTimerOnly ==
    \A c \in Slots :
        /\ calls[c].aborted => calls[c].timer = "fired"
        /\ RejectedWith(c, "TimeoutError") => calls[c].timer = "fired"

\* a step of one call leaves every other call as it was
OtherCallsUntouched ==
    \A c \in Slots : \A d \in Slots \ {c} :
        calls'[c] # calls[c] => calls'[d] = calls[d]

\* C17: calls issued concurrently on one client are independent: each has its
\* own timer and abort signal, and under every interleaving of their
\* responses and timers a step of one call (its timer firing, its failure,
\* its settlement) leaves the state and the result of every other call as it
\* was; a call is aborted only by its own timer.
C17_ConcurrentCallsIndependent ==
    [] OwnTimerOnly /\ [][OtherCallsUntouched]_vars

C17_Witness ==
    \E c \in Slots : \E d \in Slots \ {c} :
        /\ calls[c].pc = "fetch"
        /\ calls[c].timer = "fired"
        /\ calls[c].aborted
        /\ calls[d].pc = "json"
        /\ calls[d].timer = "cleared"
        /\ ~calls[d].aborted

\* the values a request carries under a header name
HeaderValues(request, name) ==
    { request.headers[i][2] : i \in { j \in 1..Len(request.headers) :
                                        request.headers[j][1] = name } }

\* C18: every request issued through an accessor of a client constructed
\* with key k carries the header "api-key" with the value trim(k), and every
\* module of the client holds trim(k), whatever calls went before.
C18_ApiKeyHeaderIsTrimmedKey ==
    /\ \A m \in ModuleNames :
          modules[m] # NoInstance => modules[m].apiKey = Trim(built.apiKey.s)
    /\ \A c \in Slots : \A i \in 1..Len(calls[c].requests) :
          HeaderValues(calls[c].requests[i], "api-key") = {Trim(built.apiKey.s)}

C18_Witness ==
    \E c \in Slots :
        /\ built = [cls |-> "Fanart", apiKey |-> Str(<<" ", "k", "\n">>)]
        /\ calls[c].acc = "music.artists.get"
        /\ Len(calls[c].requests) = 1
        /\ HeaderValues(calls[c].requests[1], "api-key") = {<<"k">>}

\* the error objects of a state: the one a constructor threw and the ones
\* calls rejected with
ErrorsRaised ==
    ({thrown} \ {NoError})
        \cup { calls[c].outcome.error :
                 c \in { d \in Slots : calls[d].outcome.state = "rejected" } }

\* the status code every error of a kind carries: none for NetworkError
FixedStatus(cls) ==
    CASE cls = "AuthenticationError" -> {401}
      [] cls = "NotFoundError"       -> {404}
      [] cls = "RateLimitError"      -> {429}
      [] cls = "TimeoutError"        -> {408}
      [] cls = "NetworkError"        -> {}

\* C19: every error of a kind carries that kind's fixed status code wherever
\* it is raised: AuthenticationError 401 (also from a module constructor given
\* no key), NotFoundError 404, RateLimitError 429, TimeoutError 408,
\* NetworkError none; each of these kinds is a FanartApiError, and the error
\* of a failed argument validation is not.
C19_KindFixesStatusCode ==
    /\ \A e \in ErrorsRaised :
          e.cls \in { "AuthenticationError", "NotFoundError", "RateLimitError",
                      "TimeoutError", "NetworkError" } =>
              /\ e.statusCode = FixedStatus(e.cls)
              /\ IsFanartApiError(e)
    /\ \A c \in Slots :
          ValidationFailure(c) => ~IsFanartApiError(calls[c].outcome.error)

C19_Witness ==
    \E c \in Slots :
        /\ RejectedWith(c, "TimeoutError")
        /\ calls[c].status = {}
        /\ calls[c].outcome.error.statusCode = {408}

\* something went wrong in a started call: its argument fails validation,
\* an error was raised (by the transport, by the status, by the body parse),
\* its timer fired, or the response has a status outside 200..299
FailureOccurred(c) ==
    /\ Started(c)
    /\ \/ Validate(calls[c].acc, calls[c].arg) # NoError
       \/ calls[c].raised # {}
       \/ calls[c].timer = "fired"
       \/ \E s \in calls[c].status : NonSuccess(s)

\* C20: a call in which a failure occurred never resolves and never carries
\* data: once settled it is rejected, with no partial result; every
\* rejection is either the plain Error of a validation raised before any
\* request, or a FanartApiError (or a subclass).
C20_FailureNeverResolves ==
    \A c \in Slots :
        /\ FailureOccurred(c) =>
              /\ calls[c].outcome.state # "resolved"
              /\ "data" \notin DOMAIN calls[c].outcome
              /\ Settled(c) => calls[c].outcome.state = "rejected"
        /\ calls[c].outcome.state = "rejected" =>
              /\ "data" \notin DOMAIN calls[c].outcome
              /\ \/ ValidationFailure(c)
                 \/ /\ IsFanartApiError(calls[c].outcome.error)
                    /\ calls[c].requests # <<>>

C20_Witness ==
    \E c \in Slots : \E e \in calls[c].raised :
        /\ Settled(c)
        /\ calls[c].status = {200}
        /\ e.cls = "TypeError"
        /\ RejectedWith(c, "FanartApiError")
        /\ calls[c].body = {}

\* a call that has been started and has not settled
InFlight(c) == calls[c].pc \in {"fetch", "text", "json"}

\* C21: the 10,000 ms deadline bounds the whole call: a call in flight,
\* whether it awaits the response or is reading the response body, settles
\* eventually (by the deadline at the latest, with TimeoutError) even if the
\* upstream stalls.
C21_DeadlineBoundsWholeCall ==
    \A c \in Slots : InFlight(c) ~> Settled(c)

\* the text an error response's body gave, or the placeholder when reading
\* the body failed
TextOf(c) ==
    IF calls[c].bodyText = {} THEN UnknownError
    ELSE CHOOSE t \in calls[c].bodyText : TRUE

\* C22: the error of a non-success response carries the body text: for 401,
\* 404 and 429 the message ends with it, for any other status the message
\* ends with it and the response field equals it; when reading the body
\* fails the text is "Unknown error", and the kind is still chosen by the
\* status.
C22_ErrorCarriesBodyText ==
    \A c \in Slots : \A s \in calls[c].status :
        (Settled(c) /\ NonSuccess(s)) =>
            /\ RejectedWith(c, KindOf(s))
            /\ calls[c].outcome.error.text = TextOf(c)
            /\ calls[c].outcome.error.response =
                  IF s \in {401, 404, 429} THEN {} ELSE {TextOf(c)}

C22_Witness ==
    \E c \in Slots :
        /\ Settled(c)
        /\ calls[c].status = {404}
        /\ calls[c].bodyText = {}
        /\ RejectedWith(c, "NotFoundError")
        /\ calls[c].outcome.error.text = UnknownError

\* the base every request url starts with
BaseUrlText ==
    <<"h", "t", "t", "p", "s", ":", "/", "/", "w", "e", "b", "s", "e", "r", "v", "i", "c", "e", ".">>
    \o <<"f", "a", "n", "a", "r", "t", ".", "t", "v", "/", "v", "3">>

\* a date was given to a latest accessor: a string that is not empty
DateGiven(arg) == arg.t = "string" /\ arg.s # <<>>

\* the resource a latest accessor is about
ResourceOf(acc) ==
    CASE acc = "movie.latest"         -> <<"/", "m", "o", "v", "i", "e", "s">>
      [] acc = "music.artists.latest" -> <<"/", "m", "u", "s", "i", "c">>
      [] acc = "tv.latest"            -> <<"/", "t", "v">>

\* the path of an accessor's request
PathOf(acc, arg) ==
    CASE acc = "movie.get"         -> <<"/", "m", "o", "v", "i", "e", "s", "/">> \o IntToStr(arg.n)
      [] acc = "tv.get"            -> <<"/", "t", "v", "/">> \o IntToStr(arg.n)
      [] acc = "music.artists.get" -> <<"/", "m", "u", "s", "i", "c", "/">> \o Trim(arg.s)
      [] acc = "music.album"       -> <<"/", "m", "u", "s", "i", "c", "/", "a", "l", "b", "u", "m", "s", "/">> \o Trim(arg.s)
      [] acc = "music.label"       -> <<"/", "m", "u", "s", "i", "c", "/", "l", "a", "b", "e", "l", "s", "/">> \o Trim(arg.s)
      [] OTHER ->
           IF DateGiven(arg)
           THEN ResourceOf(acc) \o <<"/", "l", "a", "t", "e", "s", "t", "/">> \o arg.s
           ELSE ResourceOf(acc) \o <<"/", "l", "a", "t", "e", "s", "t">>

\* C23: the url of the request of a call that passed validation is the base
\* https://webservice.fanart.tv/v3 followed by the accessor's path:
\* /movies/{id}, /tv/{id}, /music/{mbid}, /music/albums/{mbid},
\* /music/labels/{mbid} with the MBID trimmed, and /{movies|music|tv}/latest
\* without a date or /{movies|music|tv}/latest/{date} with one, whatever the
\* month and day digits of the date are.
C23_RequestUrl ==
    \A c \in Slots : \A i \in 1..Len(calls[c].requests) :
        calls[c].requests[i].url =
            BaseUrlText \o PathOf(calls[c].acc, calls[c].arg)

C23_Witness ==
    \E c \in Slots :
        /\ calls[c].acc = "music.album"
        /\ calls[c].arg = Str(<<" ", "a", "b", " ">>)
        /\ Len(calls[c].requests) = 1
        /\ calls[c].requests[1].url =
              BaseUrlText \o <<"/", "m", "u", "s", "i", "c", "/", "a", "l", "b", "u", "m", "s", "/", "a", "b">>

\* the names of the headers of a request
HeaderNames(request) ==
    { request.headers[i][1] : i \in 1..Len(request.headers) }

\* C24: every outbound request is a GET that carries exactly two headers,
\* Content-Type: application/json and the credential under api-key.
C24_ExactlyTwoHeaders ==
    \A c \in Slots : \A i \in 1..Len(calls[c].requests) :
        LET request == calls[c].requests[i]
        IN  /\ request.method = "GET"
            /\ Len(request.headers) = 2
            /\ HeaderNames(request) = {"Content-Type", "api-key"}
            /\ HeaderValues(request, "Content-Type") = {"application/json"}

\* C24, amended: every outbound request is a GET that carries exactly three
\* headers: Content-Type: application/json, User-Agent:
\* Deno-Fanart-Client/1.0.0, and the credential under api-key.
C24_ExactlyThreeHeaders ==
    \A c \in Slots : \A i \in 1..Len(calls[c].requests) :
        LET request == calls[c].requests[i]
        IN  /\ request.method = "GET"
            /\ Len(request.headers) = 3
            /\ HeaderNames(request) = {"Content-Type", "User-Agent", "api-key"}
            /\ HeaderValues(request, "Content-Type") = {"application/json"}
            /\ HeaderValues(request, "User-Agent") = {"Deno-Fanart-Client/1.0.0"}
            /\ HeaderValues(request, "api-key") =
                  {modules[ModuleOf(calls[c].acc)].apiKey}

C24_Witness ==
    \E c \in Slots :
        /\ Len(calls[c].requests) = 1
        /\ calls[c].requests[1].method = "GET"
        /\ "User-Agent" \in HeaderNames(calls[c].requests[1])
        /\ Len(calls[c].requests[1].headers) = 3

\* every module of the client holds the key and the base url it was
\* constructed with
ClientAsConstructed ==
    \A m \in ModuleNames :
        modules[m] # NoInstance =>
            /\ modules[m].apiKey = Trim(built.apiKey.s)
            /\ modules[m].baseUrl = BaseUrlText

\* a step of a call leaves the client as it was
ClientUntouchedByCalls ==
    calls' # calls => /\ modules' = modules
                      /\ built' = built
                      /\ thrown' = thrown

\* two calls with the same accessor, argument and options, to which the
\* upstream and the timer did the same
SameCallSameUpstream(c, d) ==
    /\ calls[c].acc = calls[d].acc
    /\ calls[c].arg = calls[d].arg
    /\ calls[c].options = calls[d].options
    /\ calls[c].timer = calls[d].timer
    /\ calls[c].status = calls[d].status
    /\ calls[c].bodyText = calls[d].bodyText
    /\ calls[c].body = calls[d].body
    /\ calls[c].raised = calls[d].raised

\* the outcome and the request of a call are decided by its own arguments
\* and by what the upstream did for it
OutcomeFromOwnCall ==
    \A c \in Slots : \A d \in Slots :
        (Settled(c) /\ Settled(d) /\ SameCallSameUpstream(c, d)) =>
            /\ calls[c].outcome = calls[d].outcome
            /\ calls[c].requests = calls[d].requests

\* C25: no call, successful or failed, changes the client: through every
\* sequence of calls the key and base url of each module are those of
\* construction, and the outcome of a call is decided by its own arguments
\* and the upstream's behaviour for it, whatever calls went before.
C25_CallsLeaveClientUnchanged ==
    /\ [] (ClientAsConstructed /\ OutcomeFromOwnCall)
    /\ [][ClientUntouchedByCalls]_vars

C25_Witness ==
    \E c \in Slots : \E d \in Slots \ {c} :
        /\ RejectedWith(c, "NotFoundError")
        /\ calls[d].outcome.state = "resolved"
        /\ calls[d].usePreview
        /\ modules["movie"].apiKey = <<"k">>
        /\ modules["movie"].baseUrl = BaseUrlText

\* C26: the error outcomes of a call exclude one another: a call rejects
\* with TimeoutError only when its timer fired while the response was still
\* awaited; once a status is received the timer is cleared and can no longer
\* abort, and the settled outcome is decided by the status (non-success:
\* the kind the status names) and by the parse of the body (success status:
\* the data, or the base FanartApiError for the parse failure).
C26_TimeoutOnlyWhileAwaited ==
    \A c \in Slots :
        /\ RejectedWith(c, "TimeoutError") =>
              /\ calls[c].status = {}
              /\ calls[c].timer = "fired"
              /\ \A e \in calls[c].raised : e.cls = "AbortError"
        /\ \A s \in calls[c].status :
              /\ calls[c].timer = "cleared"
              /\ ~calls[c].aborted
              /\ Settled(c) =>
                    IF NonSuccess(s)
                    THEN RejectedWith(c, KindOf(s))
                    ELSE \/ /\ calls[c].outcome.state = "resolved"
                            /\ calls[c].body # {}
                            /\ calls[c].raised = {}
                         \/ /\ RejectedWith(c, "FanartApiError")
                            /\ calls[c].body = {}
                            /\ calls[c].raised \subseteq JsonErrors
                            /\ calls[c].raised # {}

C26_Witness ==
    \E c \in Slots : \E e \in calls[c].raised :
        /\ RejectedWith(c, "TimeoutError")
        /\ e.cls = "AbortError"
        /\ calls[c].status = {}
        /\ calls[c].timer = "fired"
        /\ Len(calls[c].requests) = 1

\* makeRequest has run and settled the call
MakeRequestSettled(c) == Settled(c) /\ calls[c].requests # <<>>

\* C27: on every path by which makeRequest settles (success, non-success
\* status, parse failure, network failure, timeout) the timer of the call has
\* fired or has been cleared: no settled call has an armed timer, so no abort
\* can be triggered for it.
C27_NoArmedTimerAfterSettle ==
    \A c \in Slots :
        /\ MakeRequestSettled(c) => calls[c].timer \in {"fired", "cleared"}
        /\ Settled(c) => /\ calls[c].timer # "armed"
                         /\ ~ENABLED TimerFires(c)

C27_Witness ==
    \E c \in Slots :
        /\ MakeRequestSettled(c)
        /\ RejectedWith(c, "NetworkError")
        /\ calls[c].status = {}
        /\ calls[c].timer = "cleared"

\* the last "." of the url is the one of the host name fanart.tv
LastDotIsHostDot(url) ==
    LET d == LastIndexOf(url, ".")
    IN  /\ d >= 6
        /\ d + 3 <= Len(url)
        /\ SubSeq(url, d - 5, d + 3) = FanartHost

====
